---- MODULE Spec2Model ----
(***************************************************************************)
(* A model of roam_unofficial/roam.py: the Roam bot client (constructor,   *)
(* send_message, list_channels, test_connection) and the notify decorator. *)
(* The HTTP transport (requests) is the environment: every request the     *)
(* client issues is logged, and the transport either answers or raises.    *)
(* Exceptions are instances of Exception subclasses.                       *)
(***************************************************************************)
EXTENDS Integers, Sequences, FiniteSets, TLC

VARIABLES self, constructed, pc, call

vars == <<self, constructed, pc, call>>

----------------------------------------------------------------------------
(* Bounds *)

\* longest channel list passed to the constructor or to send_message
MaxChans == 2
\* longest run of the wrapped callable, in seconds
MaxElapsed == 1

----------------------------------------------------------------------------
(* Python values *)

Range(s) == {s[i] : i \in 1..Len(s)}

None == [kind |-> "none", val |-> <<>>]
List(s) == [kind |-> "list", val |-> s]
Tuple(s) == [kind |-> "tuple", val |-> s]

NoExc == [type |-> "", arg |-> ""]
Exc(t, a) == [type |-> t, arg |-> a]

\* str(e): a KeyError shows the repr of its key, the others their message
Str(e) == IF e.type = "KeyError" THEN "'" \o e.arg \o "'" ELSE e.arg

PyNone == [type |-> "NoneType", repr |-> "None", items |-> <<>>]
PyInt(s) == [type |-> "int", repr |-> s, items |-> <<>>]
PyBool(b) == [type |-> "bool", repr |-> IF b THEN "True" ELSE "False", items |-> <<>>]
PyList(s) == [type |-> "list", repr |-> "[...]", items |-> s]

Return(v) == [kind |-> "return", val |-> v, exc |-> NoExc]
Raise(e) == [kind |-> "raise", val |-> PyNone, exc |-> e]
Pending == [kind |-> "none", val |-> PyNone, exc |-> NoExc]

ChannelIds == {"a", "b"}
ChannelLists == UNION {[1..n -> ChannelIds] : n \in 0..MaxChans}

\* list(set(xs)): each element once, in an order the hash table decides
ListSetOrders(xs) ==
    LET S == Range(xs)
    IN {s \in [1..Cardinality(S) -> S] : Range(s) = S}

----------------------------------------------------------------------------
(* JSON *)

JsonNull == [json |-> "null", items |-> <<>>]
JsonArray(s) == [json |-> "array", items |-> s]

\* json.dumps of the message payload: None becomes null, a list an array
JsonDumps(payload) ==
    [sender |-> payload["sender"],
     text |-> payload["text"],
     recipients |-> IF payload["recipients"].kind = "none"
                    THEN JsonNull
                    ELSE JsonArray(payload["recipients"].val)]

GroupA == [addressId |-> "a", name |-> "general", groupType |-> "group"]
GroupB == [addressId |-> "b", name |-> "alerts", groupType |-> "group"]

Bodies ==
    {"[{\"addressId\":\"a\"},{\"addressId\":\"b\"}]", "[]",
     "{\"error\":\"x\"}", "{\"status\":\"ok\"}", "{\"status\":\"fail\"}",
     "{}", "<html>"}

\* a string member of a decoded object, as dict.get sees it
Absent == [present |-> FALSE, s |-> ""]
Field(v) == [present |-> TRUE, s |-> v]

\* json.loads of a response body
JsonLoads(text) ==
    CASE text = "[{\"addressId\":\"a\"},{\"addressId\":\"b\"}]" ->
            [json |-> "array", items |-> <<GroupA, GroupB>>, status |-> Absent]
      [] text = "[]" ->
            [json |-> "array", items |-> <<>>, status |-> Absent]
      [] text = "{\"error\":\"x\"}" ->
            [json |-> "object", items |-> <<>>, status |-> Absent]
      [] text = "{\"status\":\"ok\"}" ->
            [json |-> "object", items |-> <<>>, status |-> Field("ok")]
      [] text = "{\"status\":\"fail\"}" ->
            [json |-> "object", items |-> <<>>, status |-> Field("fail")]
      [] text = "{}" ->
            [json |-> "object", items |-> <<>>, status |-> Absent]
      [] OTHER ->
            [json |-> "invalid", items |-> <<>>, status |-> Absent]

----------------------------------------------------------------------------
(* Transport *)

Net == {"ok", "ConnectionError"}

SendUrl == "https://api.ro.am/v1/chat.sendMessage"
GroupsUrl == "https://api.ro.am/v1/groups.list"
TestUrl == "https://api.ro.am/v1/test"

Request(method, url, headers, data, net) ==
    [method |-> method, url |-> url, headers |-> headers, data |-> data,
     net |-> net]

NoData == [sender |-> <<>>, text |-> "", recipients |-> JsonNull]

----------------------------------------------------------------------------
(* Roam.__init__ *)

DefaultHeaders(token) ==
    ("Content-Type" :> "application/json")
        @@ ("Accept" :> "application/json")
        @@ ("Authorization" :> ("Bearer " \o token))

HeaderOverrides ==
    {None, List(("Accept" :> "text/plain") @@ ("X-Trace" :> "1"))}

\* the constructor: the object it builds, or the exception it raises
Construct(bot_name, bot_id, image_url, token, headers, channels) ==
    LET hdrs == IF headers.kind # "none"
                THEN headers.val @@ DefaultHeaders(token)
                ELSE DefaultHeaders(token)
        base == [sender |-> [id |-> bot_id, name |-> bot_name,
                             imageUrl |-> image_url]]
        obj == [bot_name |-> bot_name, bot_id |-> bot_id,
                image_url |-> image_url, token |-> token,
                headers |-> hdrs, base |-> base, channels |-> channels]
    IN IF channels.kind \in {"list", "none"}
       THEN [exc |-> NoExc, obj |-> obj]
       ELSE [exc |-> Exc("ValueError", "Channels can only be passed as a list."),
             obj |-> obj]

----------------------------------------------------------------------------
(* Roam.send_message *)

\* payload = self.base, without the copy
DictAlias(d) == [fresh |-> FALSE, val |-> d]

\* dict.copy(): a fresh dict with the same items
DictCopy(d) == [fresh |-> TRUE, val |-> d]

\* channels = [*self.channels, *channels], without the set
RecipientsConcat(obj, channels, order) ==
    IF channels.kind = "none"
    THEN [exc |-> NoExc, val |-> obj.channels]
    ELSE IF obj.channels.kind # "none"
    THEN [exc |-> NoExc, val |-> List(obj.channels.val \o channels.val)]
    ELSE [exc |-> Exc("ValueError",
                      "No Channel passed at init or during message building."),
          val |-> None]

\* the channel resolution of send_message: the recipients, or the error
Recipients(obj, channels, order) ==
    IF channels.kind = "none"
    THEN [exc |-> NoExc, val |-> obj.channels]
    ELSE IF obj.channels.kind # "none"
    THEN [exc |-> NoExc, val |-> List(order)]
    ELSE [exc |-> Exc("ValueError",
                      "No Channel passed at init or during message building."),
          val |-> None]

\* the outcomes of list(set([*self.channels, *channels])), when it is evaluated
MergeOrders(obj, channels) ==
    IF channels.kind # "none" /\ obj.channels.kind # "none"
    THEN ListSetOrders(obj.channels.val \o channels.val)
    ELSE {<<>>}

send_message(obj, message, channels, order, net) ==
    LET copy == DictCopy(obj.base)
        payload1 == ("text" :> message) @@ copy.val
        rcpt == Recipients(obj, channels, order)
        payload2 == ("recipients" :> rcpt.val) @@ payload1
        after(p) == IF copy.fresh THEN obj ELSE [obj EXCEPT !.base = p]
    IN IF rcpt.exc # NoExc
       THEN [exc |-> rcpt.exc, http |-> <<>>, obj |-> after(payload1)]
       ELSE [exc |-> IF net = "ok" THEN NoExc
                     ELSE Exc("ConnectionError", "connection failed"),
             http |-> <<Request("POST", SendUrl, obj.headers,
                                JsonDumps(payload2), net)>>,
             obj |-> after(payload2)]

----------------------------------------------------------------------------
(* Roam.list_channels, Roam.test_connection *)

list_channels(obj, net, body) ==
    LET req == Request("GET", GroupsUrl, obj.headers, NoData, net)
        channels == JsonLoads(body)
    IN IF net # "ok"
       THEN [outcome |-> Raise(Exc("ConnectionError", "connection failed")),
             http |-> <<req>>]
       ELSE IF channels.json = "invalid"
       THEN [outcome |-> Raise(Exc("JSONDecodeError", "Expecting value")),
             http |-> <<req>>]
       ELSE IF channels.json = "array"
       THEN [outcome |-> Return(PyList(channels.items)), http |-> <<req>>]
       ELSE [outcome |-> Raise(Exc("ValueError",
                                   "Unexpected Response from Roam Server")),
             http |-> <<req>>]

test_connection(obj, net, body) ==
    LET req == Request("GET", TestUrl, obj.headers, NoData, net)
        resp == JsonLoads(body)
    IN IF net # "ok"
       THEN [outcome |-> Raise(Exc("ConnectionError", "connection failed")),
             http |-> <<req>>]
       ELSE IF resp.json = "invalid"
       THEN [outcome |-> Raise(Exc("JSONDecodeError", "Expecting value")),
             http |-> <<req>>]
       ELSE IF resp.json # "object"
       THEN [outcome |-> Raise(Exc("AttributeError",
                                   "'list' object has no attribute 'get'")),
             http |-> <<req>>]
       ELSE [outcome |-> Return(PyBool(resp.status = Field("ok"))),
             http |-> <<req>>]

----------------------------------------------------------------------------
(* Roam.notify *)

Lit(s) == [kind |-> "lit", s |-> s]
Fld(s) == [kind |-> "field", s |-> s]

\* "{func_name}:{table}:{func_exception}"
FailureTable == <<Fld("func_name"), Lit(":"), Fld("table"), Lit(":"),
                  Fld("func_exception")>>
\* "{func_name}:{func_start_time}. Failed <{func_exception}> {func_end_time}"
FailureTimes == <<Fld("func_name"), Lit(":"), Fld("func_start_time"),
                  Lit(". Failed <"), Fld("func_exception"), Lit("> "),
                  Fld("func_end_time")>>
\* "{func_name}: {func_start_time} - {func_end_time} {func_exception}"
SuccessTimes == <<Fld("func_name"), Lit(": "), Fld("func_start_time"),
                  Lit(" - "), Fld("func_end_time"), Lit(" "),
                  Fld("func_exception")>>
\* "{table} ok"
SuccessTable == <<Fld("table"), Lit(" ok")>>

\* the decorations roam.notify(message, channels, message_success) of f
Decorations ==
    [message : {FailureTable, FailureTimes},
     channels : {None, List(<<"b", "a">>)},
     message_success : {None, List(SuccessTimes), List(SuccessTable)},
     func_name : {"f"}]

NoKwargs == [n \in {} |-> ""]

\* the calls of the decorated f(table): f(table="T"), f("T"), f()
Invocations ==
    {[args |-> <<>>, kwargs |-> ("table" :> "T"), params |-> <<"table">>],
     [args |-> <<"T">>, kwargs |-> NoKwargs, params |-> <<"table">>],
     [args |-> <<>>, kwargs |-> ("func_name" :> "g"), params |-> <<"func_name">>]}

\* what the inner callable does: return a value or raise an Exception
FuncResults ==
    {Return(PyInt("42")), Raise(Exc("ValueError", "boom"))}

Pad2(n) == IF n < 10 THEN "0" \o ToString(n) ELSE ToString(n)

\* datetime.strftime("%Y-%m-%d %H:%M:%S") of a second of 2023-08-30 14:35
Strftime(sec) == "2023-08-30 14:35:" \o Pad2(sec)

RECURSIVE Render(_, _)
Render(template, ctx) ==
    IF template = <<>> THEN ""
    ELSE LET h == Head(template)
         IN (IF h.kind = "lit" THEN h.s ELSE ctx[h.s])
                \o Render(Tail(template), ctx)

\* template.format(**kwargs, **builtins): the text, or the error raised
Format(template, kwargs, builtins) ==
    LET ctx == kwargs @@ builtins
        missing == {i \in 1..Len(template) :
                       template[i].kind = "field"
                           /\ template[i].s \notin DOMAIN ctx}
        first == CHOOSE i \in missing : \A j \in missing : i <= j
    IN IF DOMAIN kwargs \cap DOMAIN builtins # {}
       THEN [exc |-> Exc("TypeError",
                         "format() got multiple values for keyword argument"),
             text |-> ""]
       ELSE IF missing # {}
       THEN [exc |-> Exc("KeyError", template[first].s), text |-> ""]
       ELSE [exc |-> NoExc, text |-> Render(template, ctx)]

\* the built-in format variables of the success message
SuccessBuiltins(func_name, func_start_time, func_end_time) ==
    [func_start_time |-> func_start_time,
     func_end_time |-> func_end_time,
     func_exception |-> "DID NOT FAIL",
     func_name |-> func_name]

\* func_end_time given the start time instead of "DID NOT COMPLETE"
FailureBuiltinsEndTime(func_name, func_start_time, e) ==
    [func_start_time |-> func_start_time,
     func_end_time |-> func_start_time,
     func_exception |-> Str(e),
     func_name |-> func_name]

\* the built-in format variables of the failure message
FailureBuiltins(func_name, func_start_time, e) ==
    [func_start_time |-> func_start_time,
     func_end_time |-> "DID NOT COMPLETE",
     func_exception |-> Str(e),
     func_name |-> func_name]

FormatLog(which, f) == [which |-> which, ok |-> f.exc = NoExc, text |-> f.text]
SendLog(which, text, channels, s) ==
    [which |-> which, text |-> text, channels |-> channels, ok |-> s.exc = NoExc]

\* a formatted notification handed to send_message: its logs and its error
Notify(obj, which, template, kwargs, builtins, channels, order, net) ==
    LET f == Format(template, kwargs, builtins)
        s == send_message(obj, f.text, channels, order, net)
    IN IF f.exc # NoExc
       THEN [exc |-> f.exc, formats |-> <<FormatLog(which, f)>>,
             sends |-> <<>>, http |-> <<>>, obj |-> obj]
       ELSE [exc |-> s.exc, formats |-> <<FormatLog(which, f)>>,
             sends |-> <<SendLog(which, f.text, channels, s)>>,
             http |-> s.http, obj |-> s.obj]

NoNotify(obj) ==
    [exc |-> NoExc, formats |-> <<>>, sends |-> <<>>, http |-> <<>>, obj |-> obj]

\* the try block of wrapped: the callable, then the success notification
TryBlock(obj, deco, inv, start, fres, elapsed, order, nets) ==
    IF fres.kind = "raise"
    THEN [val |-> PyNone] @@ [NoNotify(obj) EXCEPT !.exc = fres.exc]
    ELSE IF deco.message_success.kind # "none"
    THEN [val |-> fres.val]
            @@ Notify(obj, "success", deco.message_success.val, inv.kwargs,
                      SuccessBuiltins(deco.func_name, Strftime(start),
                                      Strftime(start + elapsed)),
                      deco.channels, order, nets[1])
    ELSE [val |-> fres.val] @@ NoNotify(obj)

\* the except block without its raise e
ExceptBlockNoRaise(obj, deco, inv, start, e, order, net) ==
    LET n == Notify(obj, "failure", deco.message, inv.kwargs,
                    FailureBuiltins(deco.func_name, Strftime(start), e),
                    deco.channels, order, net)
    IN [outcome |-> IF n.exc # NoExc THEN Raise(n.exc) ELSE Return(PyNone),
        formats |-> n.formats, sends |-> n.sends, http |-> n.http,
        obj |-> n.obj]

\* the except block of wrapped: the failure notification, then raise e
ExceptBlock(obj, deco, inv, start, e, order, net) ==
    LET n == Notify(obj, "failure", deco.message, inv.kwargs,
                    FailureBuiltins(deco.func_name, Strftime(start), e),
                    deco.channels, order, net)
    IN [outcome |-> IF n.exc # NoExc THEN Raise(n.exc) ELSE Raise(e),
        formats |-> n.formats, sends |-> n.sends, http |-> n.http,
        obj |-> n.obj]

\* the wrapper without its return val
wrappedNoReturn(obj, deco, inv, start, fres, elapsed, order, nets) ==
    LET t == TryBlock(obj, deco, inv, start, fres, elapsed, order, nets)
        x == ExceptBlock(t.obj, deco, inv, start, t.exc, order,
                         nets[Len(t.http) + 1])
    IN IF t.exc = NoExc
       THEN [outcome |-> Return(PyNone), formats |-> t.formats,
             sends |-> t.sends, http |-> t.http, obj |-> t.obj]
       ELSE [outcome |-> x.outcome, formats |-> t.formats \o x.formats,
             sends |-> t.sends \o x.sends, http |-> t.http \o x.http,
             obj |-> x.obj]

\* one call of the function notify's wrapper returns
wrapped(obj, deco, inv, start, fres, elapsed, order, nets) ==
    LET t == TryBlock(obj, deco, inv, start, fres, elapsed, order, nets)
        x == ExceptBlock(t.obj, deco, inv, start, t.exc, order,
                         nets[Len(t.http) + 1])
    IN IF t.exc = NoExc
       THEN [outcome |-> Return(t.val), formats |-> t.formats,
             sends |-> t.sends, http |-> t.http, obj |-> t.obj]
       ELSE [outcome |-> x.outcome, formats |-> t.formats \o x.formats,
             sends |-> t.sends \o x.sends, http |-> t.http \o x.http,
             obj |-> x.obj]

----------------------------------------------------------------------------
(* The client and its callers *)

NoDeco ==
    [message |-> <<>>, channels |-> None, message_success |-> None,
     func_name |-> ""]
NoInv == [args |-> <<>>, kwargs |-> NoKwargs, params |-> <<>>]

Idle ==
    [op |-> "none", message |-> "", channels |-> None, deco |-> NoDeco,
     inv |-> NoInv, start |-> 0, elapsed |-> 0, fres |-> Pending, outcome |-> Pending,
     formats |-> <<>>, sends |-> <<>>, http |-> <<>>]

ConstructorChannels ==
    {None} \cup {List(c) : c \in ChannelLists} \cup {Tuple(<<"a">>)}

Init ==
    \E headers \in HeaderOverrides, channels \in ConstructorChannels :
        LET c == Construct("bot", "B1", "https://img/bot.png", "tok",
                           headers, channels)
        IN /\ c.exc = NoExc
           /\ self = c.obj
           /\ constructed = c.obj
           /\ pc = "idle"
           /\ call = Idle

SendMessage ==
    /\ pc = "idle"
    /\ \E message \in {"hello"},
          channels \in {None} \cup {List(c) : c \in ChannelLists},
          net \in Net :
        \E order \in MergeOrders(self, channels) :
            LET r == send_message(self, message, channels, order, net)
            IN /\ self' = r.obj
               /\ call' = [Idle EXCEPT
                              !.op = "send_message", !.message = message,
                              !.channels = channels,
                              !.outcome = IF r.exc = NoExc THEN Return(PyNone)
                                          ELSE Raise(r.exc),
                              !.http = r.http]
    /\ UNCHANGED <<constructed, pc>>

ListChannels ==
    /\ pc = "idle"
    /\ \E net \in Net, body \in Bodies :
        LET r == list_channels(self, net, body)
        IN call' = [Idle EXCEPT !.op = "list_channels",
                                !.outcome = r.outcome, !.http = r.http]
    /\ UNCHANGED <<self, constructed, pc>>

TestConnection ==
    /\ pc = "idle"
    /\ \E net \in Net, body \in Bodies :
        LET r == test_connection(self, net, body)
        IN call' = [Idle EXCEPT !.op = "test_connection",
                                !.outcome = r.outcome, !.http = r.http]
    /\ UNCHANGED <<self, constructed, pc>>

\* the wrapper is entered: it reads the clock and invokes the callable
NotifyInvoke ==
    /\ pc = "idle"
    /\ \E deco \in Decorations, inv \in Invocations :
        call' = [Idle EXCEPT !.op = "notify", !.deco = deco, !.inv = inv,
                             !.start = 35]
    /\ pc' = "running"
    /\ UNCHANGED <<self, constructed>>

\* the callable returns or raises, and the wrapper runs to its end
NotifyComplete ==
    /\ pc = "running"
    /\ \E fres \in FuncResults, elapsed \in 0..MaxElapsed,
          nets \in [1..2 -> Net] :
        \E order \in MergeOrders(self, call.deco.channels) :
            LET r == wrapped(self, call.deco, call.inv, call.start, fres,
                             elapsed, order, nets)
            IN /\ self' = r.obj
               /\ call' = [call EXCEPT
                              !.fres = fres, !.elapsed = elapsed,
                              !.outcome = r.outcome,
                              !.formats = r.formats, !.sends = r.sends,
                              !.http = r.http]
    /\ pc' = "idle"
    /\ UNCHANGED constructed

Next ==
    \/ SendMessage
    \/ ListChannels
    \/ TestConnection
    \/ NotifyInvoke
    \/ NotifyComplete

Spec == Init /\ [][Next]_vars

----------------------------------------------------------------------------
(* Properties *)

Done(op) == pc = "idle" /\ call.op = op

Posts == {i \in 1..Len(call.http) : call.http[i].method = "POST"}

NoDuplicates(s) == \A i, j \in 1..Len(s) : s[i] = s[j] => i = j

Sent(which) == {i \in 1..Len(call.sends) : call.sends[i].which = which}
Formatted(which) == {i \in 1..Len(call.formats) : call.formats[i].which = which}

\* the failure notification was formatted, handed to send_message and sent
FailureDispatched == \E i \in Sent("failure") : call.sends[i].ok
\* the success notification was formatted, handed to send_message and sent
SuccessDispatched == \E i \in Sent("success") : call.sends[i].ok
\* send_message raised on the success notification
SuccessSendFailed == \E i \in Sent("success") : ~call.sends[i].ok

FailureText ==
    Render(call.deco.message,
           call.inv.kwargs
               @@ [func_name |-> call.deco.func_name,
                   func_start_time |-> Strftime(call.start),
                   func_end_time |-> "DID NOT COMPLETE",
                   func_exception |-> Str(call.fres.exc)])

SuccessText ==
    Render(call.deco.message_success.val,
           call.inv.kwargs
               @@ [func_name |-> call.deco.func_name,
                   func_start_time |-> Strftime(call.start),
                   func_end_time |-> Strftime(call.start + call.elapsed),
                   func_exception |-> "DID NOT FAIL"])

\* the names of the parameters of the callable that were passed positionally
PositionalNames ==
    {call.inv.params[i] : i \in 1..Len(call.inv.args)} \ DOMAIN call.inv.kwargs

TemplateFields(t) == {t[i].s : i \in {j \in 1..Len(t) : t[j].kind = "field"}}

\* C1: send_message with no call-site channels on a client without default
\* channels raises ValueError and issues no POST.
C1_NoChannelFails ==
    (Done("send_message") /\ call.channels.kind = "none"
        /\ constructed.channels.kind = "none")
    => /\ call.outcome.kind = "raise"
       /\ call.outcome.exc.type = "ValueError"
       /\ Posts = {}

\* C2: send_message with call-site channels on a client without default
\* channels raises nothing and issues one POST to exactly those channels.
C2_CallSiteChannelsOnly ==
    (Done("send_message") /\ call.channels.kind = "list"
        /\ constructed.channels.kind = "none")
    => /\ call.outcome.kind = "return"
       /\ Cardinality(Posts) = 1
       /\ Len(call.http) = 1
       /\ call.http[1].data.recipients = JsonArray(call.channels.val)

\* C3: on a client with default channels D, send_message(text, C) issues
\* exactly one POST; its recipients are, as a set, D when C is absent and
\* D union C when C is a list, and then hold every channel exactly once.
C3_DefaultsMerged ==
    (Done("send_message") /\ constructed.channels.kind = "list")
    => /\ Len(call.http) = 1
       /\ Posts = {1}
       /\ LET r == call.http[1].data.recipients
              D == Range(constructed.channels.val)
          IN /\ r.json = "array"
             /\ call.channels.kind = "none" => Range(r.items) = D
             /\ call.channels.kind = "list"
                    => /\ Range(r.items) = D \cup Range(call.channels.val)
                       /\ NoDuplicates(r.items)

C3_Witness ==
    /\ Done("send_message")
    /\ constructed.channels = List(<<"a", "b">>)
    /\ call.channels = List(<<"b", "b">>)
    /\ Len(call.http) = 1
    /\ call.http[1].data.recipients = JsonArray(<<"b", "a">>)

\* C4: when the wrapped callable raises E and the failure notification is
\* dispatched, exactly one message is sent, the failure template formatted
\* with the keyword arguments and the built-ins (func_end_time =
\* "DID NOT COMPLETE", func_exception = E), no success message is sent, and
\* the wrapper raises E.
C4_FailureNotifiedThenReraised ==
    (Done("notify") /\ call.fres.kind = "raise" /\ FailureDispatched)
    => /\ Len(call.sends) = 1
       /\ call.sends[1].which = "failure"
       /\ call.sends[1].text = FailureText
       /\ call.sends[1].channels = call.deco.channels
       /\ Sent("success") = {}
       /\ Cardinality(Posts) = 1
       /\ call.http[1].data.text = FailureText
       /\ call.outcome = Raise(call.fres.exc)
       /\ (call.deco.message = FailureTable
              /\ call.inv.kwargs = ("table" :> "T")
              /\ call.fres.exc = Exc("ValueError", "boom"))
           => call.sends[1].text = "f:T:boom"

C4_Witness ==
    /\ Done("notify")
    /\ call.fres = Raise(Exc("ValueError", "boom"))
    /\ call.deco.message = FailureTimes
    /\ FailureDispatched
    /\ call.sends[1].text
         = "f:2023-08-30 14:35:35. Failed <boom> DID NOT COMPLETE"
    /\ call.outcome = Raise(Exc("ValueError", "boom"))

\* C5: whenever the wrapped callable raises E, the caller of the wrapper
\* receives E, also when the failure notification itself raises.
C5_OriginalErrorNeverMasked ==
    (Done("notify") /\ call.fres.kind = "raise")
    => call.outcome = Raise(call.fres.exc)

\* C6: when the wrapped callable returns v, the wrapper returns v: without a
\* success template no message is sent; with a success template whose
\* dispatch succeeds exactly one message is sent, the success template
\* formatted with func_exception = "DID NOT FAIL".
C6_ReturnValuePassedThrough ==
    (Done("notify") /\ call.fres.kind = "return")
    => /\ call.deco.message_success.kind = "none"
          => /\ call.outcome = Return(call.fres.val)
             /\ call.sends = <<>>
             /\ call.formats = <<>>
             /\ call.http = <<>>
       /\ (call.deco.message_success.kind = "list" /\ SuccessDispatched)
          => /\ call.outcome = Return(call.fres.val)
             /\ Len(call.sends) = 1
             /\ call.sends[1].which = "success"
             /\ call.sends[1].text = SuccessText
             /\ Cardinality(Posts) = 1
             /\ call.http[1].data.text = SuccessText

C6_Witness ==
    /\ Done("notify")
    /\ call.fres = Return(PyInt("42"))
    /\ call.deco.message_success = List(SuccessTimes)
    /\ SuccessDispatched
    /\ call.sends[1].text
         = "f: 2023-08-30 14:35:35 - 2023-08-30 14:35:36 DID NOT FAIL"
    /\ call.outcome = Return(PyInt("42"))

\* C7: when the wrapped callable returns but send_message raises on the
\* success notification, the wrapper does not return: it raises.
C7_SuccessSendFailureRaises ==
    (Done("notify") /\ call.fres.kind = "return" /\ SuccessSendFailed)
    => call.outcome.kind = "raise"

C7_Witness ==
    /\ Done("notify")
    /\ call.fres = Return(PyInt("42"))
    /\ SuccessSendFailed
    /\ FailureDispatched
    /\ call.outcome = Raise(Exc("ConnectionError", "connection failed"))

\* C8: when the success template names an argument that was passed
\* positionally and the callable returns, the wrapper raises KeyError and
\* sends no success message.
C8_PositionalNameIsKeyError ==
    (Done("notify") /\ call.fres.kind = "return"
        /\ call.deco.message_success.kind = "list"
        /\ TemplateFields(call.deco.message_success.val) \cap PositionalNames # {})
    => /\ call.outcome.kind = "raise"
       /\ call.outcome.exc.type = "KeyError"
       /\ Sent("success") = {}

\* C9: the client's identity, base sender record, headers and default
\* channels keep the values they had when the constructor returned.
C9_ConfigImmutable ==
    /\ self.base = constructed.base
    /\ self.headers = constructed.headers
    /\ self.channels = constructed.channels
    /\ self = constructed

C9_Witness ==
    /\ Done("notify")
    /\ constructed.channels = List(<<"a", "a">>)
    /\ Len(call.http) = 2
    /\ call.http[2].data.recipients = JsonArray(<<"a", "b">>)
    /\ self = constructed

\* C10: in a wrapper call whose callable returns normally, the failure
\* template is never formatted and no failure message is handed to
\* send_message.
C10_FailureTemplateOnlyOnFailure ==
    (Done("notify") /\ call.fres.kind = "return")
    => Formatted("failure") = {} /\ Sent("failure") = {}

====
